---- MODULE Spec2Model ----
(***************************************************************************)
(* Model of the goal-tracker step-tree engine (lib/db stepHelpers) and of  *)
(* the GoalContext operations that drive it, with the in-memory goal       *)
(* collection and the IndexedDB object store they write to.                *)
(*                                                                         *)
(* A Step is a record                                                      *)
(*   [id, title, description, completed, parentId, children, order]        *)
(* whose children field is a sequence of Steps.  A Goal is a record        *)
(*   [id, title, description, createdAt, updatedAt, steps, order].         *)
(* Identifiers are naturals 1..MaxIds; NoId stands for `undefined`.        *)
(* A title is the sequence of its text pieces, so that appending           *)
(* " (Copy)" is a real concatenation.                                      *)
(* A nullable Step (Step | null) is a sequence of length 0 or 1.           *)
(***************************************************************************)
EXTENDS Integers, Sequences, FiniteSets

\* ---- bounds of the model ----
MaxIds == 5
MaxTime == 1
MaxIndex == 2
MaxOps == 4
MaxCalls == 4
MaxOverlap == 2

\* ---- values ----
NoId == 0
MissingId == MaxIds + 1
NoDesc == "undefined"
CopySuffix == " (Copy)"
Titles == {<<"t">>}
NewTitles == {<<"u">>}
Descriptions == {NoDesc}
NewDescriptions == {"d"}
GoalTitles == {<<"goal">>}
NewGoalTitles == {<<"renamed">>}
NoError == "null"

\* goal: the Goal value the caller holds; now: Date.now(); nextId: the next
\* identifier generateId() returns; ops: number of engine calls made so far;
\* prev, last: the Goal before the latest engine call, and that call
VARIABLES goal, now, nextId, ops, prev, last

\* goals: the collection GoalProvider holds in memory; store: the records of
\* the IndexedDB object store; calls: the GoalContext calls waiting for a store
\* request; error: the error state; done: the call that completed last;
\* fcalls: number of GoalContext calls started so far
VARIABLES goals, store, calls, error, done, fcalls

evars == <<goal, ops, prev, last>>
fvars == <<goals, store, calls, error, done, fcalls>>
vars == <<goal, now, nextId, ops, prev, last, goals, store, calls, error, done, fcalls>>

\* ---- generic helpers ----
MaxOf(S) == CHOOSE m \in S : \A x \in S : x <= m

\* Math.max(0, ...xs)
MathMax0(xs) == MaxOf({0} \cup {xs[i] : i \in 1..Len(xs)})

\* arr.map(s => s.order)
Orders(steps) == [i \in 1..Len(steps) |-> steps[i].order]

\* arr.filter(s => s.id !== id)
RECURSIVE FilterOutId(_, _)
FilterOutId(steps, id) ==
  IF steps = <<>> THEN <<>>
  ELSE IF Head(steps).id = id THEN FilterOutId(Tail(steps), id)
  ELSE <<Head(steps)>> \o FilterOutId(Tail(steps), id)

\* arr.some(s => s.id === id)
SomeId(steps, id) == \E i \in 1..Len(steps) : steps[i].id = id

\* arr.findIndex(s => s.id === id), 1-based; 0 when absent (JS: -1)
FindIndex(steps, id) ==
  IF SomeId(steps, id)
  THEN CHOOSE i \in 1..Len(steps) :
         /\ steps[i].id = id
         /\ \A j \in 1..(i-1) : steps[j].id # id
  ELSE 0

\* ---- stepHelpers.findStep ----
RECURSIVE findStepRecursive(_, _)
findStepRecursive(steps, id) ==
  IF steps = <<>> THEN <<>>
  ELSE LET step == Head(steps) IN
    IF step.id = id THEN <<step>>
    ELSE LET foundStep == IF Len(step.children) > 0
                          THEN findStepRecursive(step.children, id)
                          ELSE <<>> IN
      IF foundStep # <<>> THEN foundStep
      ELSE findStepRecursive(Tail(steps), id)

findStep(g, stepId) == findStepRecursive(g.steps, stepId)

\* ---- stepHelpers.addStep ----
RECURSIVE addStepRecursive(_, _, _)
addStepRecursive(steps, step, parentStepId) ==
  [i \in 1..Len(steps) |->
     LET s == steps[i] IN
     IF s.id = parentStepId THEN [s EXCEPT !.children = Append(@, step)]
     ELSE IF Len(s.children) > 0
          THEN [s EXCEPT !.children = addStepRecursive(@, step, parentStepId)]
          ELSE s]

addStep(g, step, parentStepId, t) ==
  LET updatedGoal == [g EXCEPT !.updatedAt = t] IN
  IF parentStepId = NoId
  THEN [updatedGoal EXCEPT !.steps = Append(@, step)]
  ELSE [updatedGoal EXCEPT !.steps = addStepRecursive(@, step, parentStepId)]

\* ---- GoalContext addStep: order of the new step, the new step, the call ----
\* faulty variant: the last order is taken to be the length of the list less one
ctxMaxOrder_Count(g, parentStepId) ==
  IF parentStepId = NoId THEN Len(g.steps) - 1
  ELSE LET parent == findStepRecursive(g.steps, parentStepId) IN
       IF parent # <<>> THEN Len(parent[1].children) - 1 ELSE -1

ctxMaxOrder(g, parentStepId) ==
  IF parentStepId = NoId
  THEN IF Len(g.steps) > 0 THEN MaxOf({g.steps[i].order : i \in 1..Len(g.steps)})
       ELSE -1
  ELSE LET parent == findStepRecursive(g.steps, parentStepId) IN
       IF parent # <<>> /\ Len(parent[1].children) > 0
       THEN MaxOf({parent[1].children[i].order : i \in 1..Len(parent[1].children)})
       ELSE -1

ctxAddStep(g, title, description, parentStepId, newId, t) ==
  LET newStep == [id |-> newId, title |-> title, description |-> description,
                  completed |-> FALSE, parentId |-> parentStepId,
                  children |-> <<>>,
                  order |-> ctxMaxOrder(g, parentStepId) + 1] IN
  addStep(g, newStep, parentStepId, t)

\* ---- stepHelpers.updateStep ----
\* faulty variant: only the root list is searched
updateStepRecursive_RootOnly(steps, updatedStep) ==
  [i \in 1..Len(steps) |->
     IF steps[i].id = updatedStep.id
     THEN [updatedStep EXCEPT !.children = steps[i].children]
     ELSE steps[i]]

RECURSIVE updateStepRecursive(_, _)
updateStepRecursive(steps, updatedStep) ==
  [i \in 1..Len(steps) |->
     LET s == steps[i] IN
     IF s.id = updatedStep.id THEN [updatedStep EXCEPT !.children = s.children]
     ELSE IF Len(s.children) > 0
          THEN [s EXCEPT !.children = updateStepRecursive(@, updatedStep)]
          ELSE s]

updateStep(g, updatedStep, t) ==
  LET updatedGoal == [g EXCEPT !.updatedAt = t] IN
  [updatedGoal EXCEPT !.steps = updateStepRecursive(@, updatedStep)]

\* ---- stepHelpers.deleteStep ----
\* faulty variant: only the root list is filtered
deleteStepRecursive_RootOnly(steps, stepId) == FilterOutId(steps, stepId)

RECURSIVE deleteStepRecursive(_, _)
deleteStepRecursive(steps, stepId) ==
  LET kept == FilterOutId(steps, stepId) IN
  [i \in 1..Len(kept) |->
     [kept[i] EXCEPT !.children = deleteStepRecursive(@, stepId)]]

deleteStep(g, stepId, t) ==
  LET updatedGoal == [g EXCEPT !.updatedAt = t] IN
  [updatedGoal EXCEPT !.steps = deleteStepRecursive(@, stepId)]

\* ---- stepHelpers.toggleStepCompletion ----
\* faulty variant: the status is not forced below the target's children
toggleCompletionRecursiveForce_NoCascade(steps, status) == steps

RECURSIVE toggleCompletionRecursiveForce(_, _)
toggleCompletionRecursiveForce(steps, status) ==
  [i \in 1..Len(steps) |->
     [steps[i] EXCEPT !.completed = status,
                      !.children = toggleCompletionRecursiveForce(@, status)]]

RECURSIVE toggleCompletionRecursive(_, _)
toggleCompletionRecursive(steps, stepId) ==
  [i \in 1..Len(steps) |->
     LET s == steps[i] IN
     IF s.id = stepId
     THEN LET newStatus == ~s.completed IN
          [s EXCEPT !.completed = newStatus,
                    !.children = [j \in 1..Len(s.children) |->
                       [s.children[j] EXCEPT
                          !.completed = newStatus,
                          !.children = toggleCompletionRecursiveForce(@, newStatus)]]]
     ELSE IF Len(s.children) > 0
          THEN [s EXCEPT !.children = toggleCompletionRecursive(@, stepId)]
          ELSE s]

toggleStepCompletion(g, stepId, t) ==
  LET updatedGoal == [g EXCEPT !.updatedAt = t] IN
  [updatedGoal EXCEPT !.steps = toggleCompletionRecursive(@, stepId)]

\* ---- stepHelpers.duplicateStep ----
\* number of generateId() calls duplicateStepRecursive makes on a step
RECURSIVE SubtreeSize(_)
SubtreeSize(step) ==
  LET RECURSIVE Sum(_)
      Sum(cs) == IF cs = <<>> THEN 0 ELSE SubtreeSize(Head(cs)) + Sum(Tail(cs))
  IN 1 + Sum(step.children)

\* faulty variant: only the root of the copy gets a new identifier, the
\* children are shared with the original
duplicateStepRecursive_SharedChildren(step, firstId) ==
  [step EXCEPT !.id = firstId, !.title = Append(@, CopySuffix)]

\* generateId() yields firstId for the node itself, then the following
\* identifiers for its children, left to right, depth first
RECURSIVE duplicateStepRecursive(_, _)
duplicateStepRecursive(step, firstId) ==
  LET RECURSIVE MapChildren(_, _)
      MapChildren(cs, id) ==
        IF cs = <<>> THEN <<>>
        ELSE <<duplicateStepRecursive(Head(cs), id)>>
               \o MapChildren(Tail(cs), id + SubtreeSize(Head(cs)))
  IN [step EXCEPT !.id = firstId,
                  !.title = Append(@, CopySuffix),
                  !.children = MapChildren(@, firstId + 1)]

RECURSIVE FilterParent(_, _)
FilterParent(steps, parentId) ==
  IF steps = <<>> THEN <<>>
  ELSE IF Head(steps).parentId = parentId
       THEN <<Head(steps)>> \o FilterParent(Tail(steps), parentId)
       ELSE FilterParent(Tail(steps), parentId)

findMaxOrder(steps, parentId) == MathMax0(Orders(FilterParent(steps, parentId)))

RECURSIVE addDuplicatedStepToParent(_, _, _)
addDuplicatedStepToParent(steps, parentId, duplicatedStep) ==
  [i \in 1..Len(steps) |->
     LET s == steps[i] IN
     IF s.id = parentId
     THEN [s EXCEPT !.children =
             Append(@, [duplicatedStep EXCEPT
                          !.order = findMaxOrder(s.children, s.id) + 1])]
     ELSE IF Len(s.children) > 0
          THEN [s EXCEPT !.children =
                  addDuplicatedStepToParent(@, parentId, duplicatedStep)]
          ELSE s]

duplicateStep(g, stepId, firstId, t) ==
  LET updatedGoal == [g EXCEPT !.updatedAt = t]
      stepToDuplicate == findStep(g, stepId)
  IN IF stepToDuplicate = <<>> THEN g
     ELSE LET duplicatedStep == duplicateStepRecursive(stepToDuplicate[1], firstId) IN
          IF stepToDuplicate[1].parentId = NoId
          THEN [updatedGoal EXCEPT !.steps =
                  Append(@, [duplicatedStep EXCEPT
                               !.order = findMaxOrder(updatedGoal.steps, NoId) + 1])]
          ELSE [updatedGoal EXCEPT !.steps =
                  addDuplicatedStepToParent(@, stepToDuplicate[1].parentId,
                                            duplicatedStep)]

\* ---- stepHelpers.reorderStep ----
\* a.splice(sourceIndex, 1); a.splice(newIndex, 0, moved); sourceIndex 1-based,
\* newIndex 0-based and not negative (an index past the end appends)
Splice(steps, sourceIndex, newIndex) ==
  LET moved == steps[sourceIndex]
      rest == [i \in 1..(Len(steps) - 1) |->
                 IF i < sourceIndex THEN steps[i] ELSE steps[i + 1]]
      at == IF newIndex > Len(rest) THEN Len(rest) ELSE newIndex
  IN [i \in 1..Len(steps) |->
        IF i <= at THEN rest[i]
        ELSE IF i = at + 1 THEN moved
        ELSE rest[i - 1]]

\* faulty variant: the spliced list keeps its old order values
Renumber_Kept(steps) == steps

\* arr.map((step, index) => ({...step, order: index}))
Renumber(steps) == [i \in 1..Len(steps) |-> [steps[i] EXCEPT !.order = i - 1]]

RECURSIVE reorderStepsAtSameLevel(_, _, _, _)
reorderStepsAtSameLevel(steps, sourceId, newIndex, parentId) ==
  IF parentId = NoId
  THEN LET sourceIndex == FindIndex(steps, sourceId) IN
       IF sourceIndex = 0 THEN steps
       ELSE Renumber(Splice(steps, sourceIndex, newIndex))
  ELSE [i \in 1..Len(steps) |->
          LET step == steps[i] IN
          IF step.id = parentId
          THEN LET sourceIndex == FindIndex(step.children, sourceId) IN
               IF sourceIndex = 0 THEN step
               ELSE [step EXCEPT !.children =
                       Renumber(Splice(@, sourceIndex, newIndex))]
          ELSE IF Len(step.children) > 0
               THEN [step EXCEPT !.children =
                       reorderStepsAtSameLevel(@, sourceId, newIndex, parentId)]
               ELSE step]

reorderStep(g, stepId, newIndex, parentId, t) ==
  LET updatedGoal == [g EXCEPT !.updatedAt = t] IN
  [updatedGoal EXCEPT !.steps =
     reorderStepsAtSameLevel(@, stepId, newIndex, parentId)]

\* ---- stepHelpers.moveStepToParent ----
\* faulty variant: only the direct children are looked at
isDescendant_ChildrenOnly(g, parentId, potentialChildId) ==
  LET parent == findStep(g, parentId) IN
  IF parent = <<>> THEN FALSE
  ELSE \E i \in 1..Len(parent[1].children) :
         parent[1].children[i].id = potentialChildId

RECURSIVE isDescendant(_, _, _)
isDescendant(g, parentId, potentialChildId) ==
  LET parent == findStep(g, parentId) IN
  IF parent = <<>> THEN FALSE
  ELSE \E i \in 1..Len(parent[1].children) :
         \/ parent[1].children[i].id = potentialChildId
         \/ isDescendant(g, parent[1].children[i].id, potentialChildId)

RECURSIVE removeStepFromParent(_, _)
removeStepFromParent(steps, stepId) ==
  IF SomeId(steps, stepId) THEN FilterOutId(steps, stepId)
  ELSE [i \in 1..Len(steps) |->
          [steps[i] EXCEPT !.children =
             IF SomeId(@, stepId) THEN FilterOutId(@, stepId)
             ELSE removeStepFromParent(@, stepId)]]

\* faulty variant: the orders of the target list are not consulted
getMaxOrder_Ignored(g, steps, parentId) == 0

getMaxOrder(g, steps, parentId) ==
  IF parentId = NoId THEN MathMax0(Orders(steps))
  ELSE LET parent == findStep(g, parentId) IN
       IF parent # <<>> THEN MathMax0(Orders(parent[1].children)) ELSE 0

RECURSIVE addStepToNewParent(_, _, _, _)
addStepToNewParent(g, steps, newParentId, movedStep) ==
  [i \in 1..Len(steps) |->
     LET s == steps[i] IN
     IF s.id = newParentId
     THEN [s EXCEPT !.children =
             Append(@, [movedStep EXCEPT !.order = getMaxOrder(g, <<>>, s.id) + 1])]
     ELSE IF Len(s.children) > 0
          THEN [s EXCEPT !.children = addStepToNewParent(g, @, newParentId, movedStep)]
          ELSE s]

\* faulty variant: the Goal keeps its old updatedAt
moveStepToParent_Unstamped(g, stepId, newParentId, t) ==
  LET stepToMove == findStep(g, stepId)
  IN IF stepToMove = <<>> THEN g
     ELSE IF newParentId # NoId /\ isDescendant(g, stepId, newParentId) THEN g
     ELSE LET intermediateSteps == removeStepFromParent(g.steps, stepId)
              movedStep == [stepToMove[1] EXCEPT !.parentId = newParentId]
          IN IF newParentId = NoId
             THEN [g EXCEPT !.steps =
                     Append(intermediateSteps,
                            [movedStep EXCEPT
                               !.order = getMaxOrder(g, intermediateSteps, NoId) + 1])]
             ELSE [g EXCEPT !.steps =
                     addStepToNewParent(g, intermediateSteps, newParentId, movedStep)]

moveStepToParent(g, stepId, newParentId, t) ==
  LET updatedGoal == [g EXCEPT !.updatedAt = t]
      stepToMove == findStep(g, stepId)
  IN IF stepToMove = <<>> THEN g
     ELSE IF newParentId # NoId /\ isDescendant(g, stepId, newParentId) THEN g
     ELSE LET intermediateSteps == removeStepFromParent(updatedGoal.steps, stepId)
              movedStep == [stepToMove[1] EXCEPT !.parentId = newParentId]
          IN IF newParentId = NoId
             THEN [updatedGoal EXCEPT !.steps =
                     Append(intermediateSteps,
                            [movedStep EXCEPT
                               !.order = getMaxOrder(g, intermediateSteps, NoId) + 1])]
             ELSE [updatedGoal EXCEPT !.steps =
                     addStepToNewParent(g, intermediateSteps, newParentId, movedStep)]

\* ---- structural observers used by the properties ----
\* identifiers of a forest, in depth-first pre-order
RECURSIVE IdSeq(_)
IdSeq(steps) ==
  IF steps = <<>> THEN <<>>
  ELSE <<Head(steps).id>> \o IdSeq(Head(steps).children) \o IdSeq(Tail(steps))

IdSet(steps) == LET ids == IdSeq(steps) IN {ids[i] : i \in 1..Len(ids)}

\* identifiers of a sibling list, in array order
ChildIds(steps) == [i \in 1..Len(steps) |-> steps[i].id]

\* every step of a forest, as a set of Step records
RECURSIVE AllSteps(_)
AllSteps(steps) ==
  IF steps = <<>> THEN {}
  ELSE {Head(steps)} \cup AllSteps(Head(steps).children) \cup AllSteps(Tail(steps))

\* every sibling list of a forest: the root list and each step's children
SiblingLists(steps) == {steps} \cup {s.children : s \in AllSteps(steps)}

\* the step with identifier id (identifiers are unique in the forest)
StepOf(steps, id) == CHOOSE s \in AllSteps(steps) : s.id = id

\* identifier of the step whose children hold id; NoId for the root list
ContainerOf(steps, id) ==
  IF SomeId(steps, id) THEN NoId
  ELSE (CHOOSE s \in AllSteps(steps) : SomeId(s.children, id)).id

\* the sibling list named by a container identifier
ListOf(steps, container) ==
  IF container = NoId THEN steps ELSE StepOf(steps, container).children

\* a step without its children, with the identifiers of its children
Fields(s) == [id |-> s.id, title |-> s.title, description |-> s.description,
              completed |-> s.completed, parentId |-> s.parentId,
              order |-> s.order, kids |-> ChildIds(s.children)]

\* ---- the state machine: one Goal driven through the engine ----
\* NoOp, Call and Called keep the history (prev, last, ops) the properties read;
\* they change nothing the engine computes.
NoOp == [op |-> "None", stepId |-> NoId, parentId |-> NoId, newIndex |-> 0,
         newId |-> NoId, title |-> <<>>, description |-> NoDesc, at |-> 0]

\* at: Date.now() at the call
Call(op, stepId, parentId, newIndex, newId) ==
  [op |-> op, stepId |-> stepId, parentId |-> parentId, newIndex |-> newIndex,
   newId |-> newId, title |-> <<>>, description |-> NoDesc, at |-> now]

CallUpdate(stepId, title, description) ==
  [Call("Update", stepId, NoId, 0, NoId) EXCEPT
     !.title = title, !.description = description]

\* bookkeeping of an engine call: the Goal it was given and its arguments
Called(c) ==
  /\ ops' = ops + 1
  /\ prev' = goal
  /\ last' = c
  /\ UNCHANGED fvars

\* no call has completed yet
NoDone == [op |-> "None", goalId |-> NoId, stepId |-> NoId, sourceIndex |-> 0,
           destinationIndex |-> 0, outcome |-> "none", cause |-> "none",
           before |-> <<>>, after |-> <<>>, issued |-> 0, result |-> <<>>,
           met |-> <<>>]

\* GoalProvider after loadGoals on an empty object store
InitProvider ==
  /\ goals = <<>>
  /\ store = {}
  /\ calls = <<>>
  /\ error = NoError
  /\ done = NoDone
  /\ fcalls = 0

Targets == IdSet(goal.steps) \cup {MissingId}
ParentArgs == IdSet(goal.steps) \cup {NoId, MissingId}

Init ==
  /\ goal = [id |-> "g1", title |-> <<"goal">>, description |-> NoDesc,
             createdAt |-> 0, updatedAt |-> 0, steps |-> <<>>, order |-> 0]
  /\ now = 0
  /\ nextId = 1
  /\ ops = 0
  /\ prev = goal
  /\ last = NoOp
  /\ InitProvider

\* Date.now() advances between calls
Tick ==
  /\ now < MaxTime
  /\ now' = now + 1
  /\ UNCHANGED <<goal, nextId, ops, prev, last>>
  /\ UNCHANGED fvars

Insert(title, description, parentStepId) ==
  /\ ops < MaxOps
  /\ nextId <= MaxIds
  /\ goal' = ctxAddStep(goal, title, description, parentStepId, nextId, now)
  /\ nextId' = nextId + 1
  /\ Called(Call("Insert", NoId, parentStepId, 0, nextId))
  /\ UNCHANGED now

\* the caller's copy of the step with a new title and description; a caller
\* whose view is stale passes a step the goal no longer holds
Update(stepId, title, description) ==
  LET existingStep == findStep(goal, stepId)
      base == IF existingStep # <<>> THEN existingStep[1]
              ELSE [id |-> stepId, title |-> title, description |-> description,
                    completed |-> FALSE, parentId |-> NoId, children |-> <<>>,
                    order |-> 0]
      updatedStep == [base EXCEPT !.title = title, !.description = description]
  IN /\ ops < MaxOps
     /\ goal' = updateStep(goal, updatedStep, now)
     /\ Called(CallUpdate(stepId, title, description))
     /\ UNCHANGED <<now, nextId>>

Delete(stepId) ==
  /\ ops < MaxOps
  /\ goal' = deleteStep(goal, stepId, now)
  /\ Called(Call("Delete", stepId, NoId, 0, NoId))
  /\ UNCHANGED <<now, nextId>>

Toggle(stepId) ==
  /\ ops < MaxOps
  /\ goal' = toggleStepCompletion(goal, stepId, now)
  /\ Called(Call("Toggle", stepId, NoId, 0, NoId))
  /\ UNCHANGED <<now, nextId>>

Duplicate(stepId) ==
  LET found == findStep(goal, stepId)
      used == IF found = <<>> THEN 0 ELSE SubtreeSize(found[1])
  IN /\ ops < MaxOps
     /\ nextId + used <= MaxIds + 1
     /\ goal' = duplicateStep(goal, stepId, nextId, now)
     /\ nextId' = nextId + used
     /\ Called(Call("Duplicate", stepId, NoId, 0, nextId))
     /\ UNCHANGED now

Reorder(stepId, newIndex, parentId) ==
  /\ ops < MaxOps
  /\ goal' = reorderStep(goal, stepId, newIndex, parentId, now)
  /\ Called(Call("Reorder", stepId, parentId, newIndex, NoId))
  /\ UNCHANGED <<now, nextId>>

Move(stepId, newParentId) ==
  /\ ops < MaxOps
  /\ goal' = moveStepToParent(goal, stepId, newParentId, now)
  /\ Called(Call("Move", stepId, newParentId, 0, NoId))
  /\ UNCHANGED <<now, nextId>>

Next ==
  \/ Tick
  \/ \E title \in Titles, description \in Descriptions, p \in ParentArgs :
       Insert(title, description, p)
  \/ \E id \in Targets, title \in NewTitles, description \in NewDescriptions :
       Update(id, title, description)
  \/ \E id \in Targets : Delete(id)
  \/ \E id \in Targets : Toggle(id)
  \/ \E id \in Targets : Duplicate(id)
  \/ \E id \in Targets, newIndex \in 0..MaxIndex, p \in ParentArgs :
       Reorder(id, newIndex, p)
  \/ \E id \in Targets, p \in ParentArgs : Move(id, p)

Spec == Init /\ [][Next]_vars

\* ---- the engine started from a Goal that holds a copied subtree ----
\* the Goal after addStep (step 1), addStep under step 1 (step 2) and
\* duplicateStep of step 1 (steps 3 and 4), all at time 0
CopiedGoal ==
  LET g0 == [id |-> "g1", title |-> <<"goal">>, description |-> NoDesc,
             createdAt |-> 0, updatedAt |-> 0, steps |-> <<>>, order |-> 0]
      g1 == ctxAddStep(g0, <<"t">>, NoDesc, NoId, 1, 0)
      g2 == ctxAddStep(g1, <<"t">>, NoDesc, 1, 2, 0)
  IN duplicateStep(g2, 1, 3, 0)

\* one call of the MaxOps allowance is counted for the construction of this
\* Goal; the remaining calls are explored from it
InitCopied ==
  /\ goal = CopiedGoal
  /\ now = 0
  /\ nextId = 5
  /\ ops = 1
  /\ prev = goal
  /\ last = NoOp
  /\ InitProvider

SpecCopied == InitCopied /\ [][Next]_vars

\* ---- lib/db: the object store keyed by id ----
storeKeys(st) == {r.id : r \in st}

\* store.add(goal), store.put(goal), store.delete(id)
applyRequest(st, w) ==
  CASE w.kind = "add" -> st \cup {w.goal[1]}
    [] w.kind = "put" -> {r \in st : r.id # w.id} \cup {w.goal[1]}
    [] w.kind = "delete" -> {r \in st : r.id # w.id}

\* ---- stepHelpers.reorderGoals ----
\* faulty variant: the moved list keeps its old order values
reorderGoals_Unnumbered(gs, sourceIndex, destinationIndex) ==
  Splice(gs, sourceIndex + 1, destinationIndex)

\* sourceIndex and destinationIndex are 0-based positions of the list
reorderGoals(gs, sourceIndex, destinationIndex) ==
  LET reorderedGoals == Splice(gs, sourceIndex + 1, destinationIndex) IN
  [i \in 1..Len(reorderedGoals) |-> [reorderedGoals[i] EXCEPT !.order = i - 1]]

\* ---- GoalContext ----
\* goals.find(g => g.id === id), as a nullable Goal
findGoal(gs, id) ==
  LET i == FindIndex(gs, id) IN IF i = 0 THEN <<>> ELSE <<gs[i]>>

GoalIds(gs) == {gs[i].id : i \in 1..Len(gs)}

\* the argument of setGoals: an updater of the current collection, or a value
applyUpdater(u, gs) ==
  CASE u.kind = "append" -> Append(gs, u.goal[1])
    [] u.kind = "replace" ->
         [i \in 1..Len(gs) |-> IF gs[i].id = u.id THEN u.goal[1] ELSE gs[i]]
    [] u.kind = "remove" -> FilterOutId(gs, u.id)
    [] u.kind = "set" -> u.list

\* faulty variant: setGoals runs whether or not the request succeeded
afterAwait_Optimistic(c, gs, resolved) ==
  IF Len(c.pending) = 1 THEN applyUpdater(c.commit, gs) ELSE gs

\* the collection once the awaited request of call c has settled: the
\* statements after the await run only if it resolved, and setGoals comes
\* after the last await
afterAwait(c, gs, resolved) ==
  IF resolved /\ Len(c.pending) = 1 THEN applyUpdater(c.commit, gs) ELSE gs

\* setError(...) of the catch block of each operation
Message(op) ==
  CASE op = "addGoal" -> "Failed to add goal. Please try again later."
    [] op = "updateGoalDetails" -> "Failed to update goal. Please try again later."
    [] op = "deleteGoal" -> "Failed to delete goal. Please try again later."
    [] op = "addStep" -> "Failed to add step. Please try again later."
    [] op = "updateStep" -> "Failed to update step. Please try again later."
    [] op = "deleteStep" -> "Failed to delete step. Please try again later."
    [] op = "toggleStepCompletion" ->
         "Failed to toggle step completion. Please try again later."
    [] op = "reorderGoals" -> "Failed to reorder goals. Please try again later."
    [] op = "reorderSteps" -> "Failed to reorder steps. Please try again later."
    [] op = "moveStepToParent" -> "Failed to move step. Please try again later."
    [] op = "duplicateStep" -> "Failed to duplicate step. Please try again later."

Request(kind, id, g) == [kind |-> kind, id |-> id, goal |-> g]

Updater(kind, id, g, list) == [kind |-> kind, id |-> id, goal |-> g, list |-> list]

\* a call that has reached its first await: the requests it will issue in
\* turn, its setGoals argument, and the collection its closure read; met
\* lists the calls that completed while this one was waiting
NewCall(op, goalId, stepId, pending, commit) ==
  [op |-> op, goalId |-> goalId, stepId |-> stepId, sourceIndex |-> 0,
   destinationIndex |-> 0, pending |-> pending, commit |-> commit,
   before |-> goals, issued |-> 0, met |-> <<>>]

\* the record kept of a completed call
Completed(c, outcome, cause, after, issued) ==
  [op |-> c.op, goalId |-> c.goalId, stepId |-> c.stepId,
   sourceIndex |-> c.sourceIndex, destinationIndex |-> c.destinationIndex,
   outcome |-> outcome, cause |-> cause, before |-> c.before,
   after |-> after, issued |-> issued,
   result |-> IF outcome = "resolved" THEN c.commit.goal ELSE <<>>,
   met |-> c.met]

\* the call waits for its first store request
Await(c) ==
  /\ calls' = Append(calls, c)
  /\ fcalls' = fcalls + 1
  /\ UNCHANGED <<goals, store, error, done>>

\* throw new Error(cause) inside the try block, before any await: the catch
\* block sets the error state and rethrows
Throw(op, goalId, stepId, cause) ==
  /\ error' = Message(op)
  /\ done' = Completed(NewCall(op, goalId, stepId, <<>>, Updater("set", NoId, <<>>, goals)),
                       "rejected", cause, goals, 0)
  /\ fcalls' = fcalls + 1
  /\ UNCHANGED <<goals, store, calls>>

\* faulty variant: setGoals is given the collection the closure read, with the
\* goal replaced, instead of an updater of the current collection
PutGoal_StaleClosure(op, goalId, stepId, updatedGoal) ==
  Await(NewCall(op, goalId, stepId,
                <<Request("put", goalId, <<updatedGoal>>)>>,
                Updater("set", goalId, <<updatedGoal>>,
                        [i \in 1..Len(goals) |->
                           IF goals[i].id = goalId THEN updatedGoal ELSE goals[i]])))

\* await db.updateGoal(updatedGoal); setGoals(prev => prev.map(...))
PutGoal(op, goalId, stepId, updatedGoal) ==
  Await(NewCall(op, goalId, stepId,
                <<Request("put", goalId, <<updatedGoal>>)>>,
                Updater("replace", goalId, <<updatedGoal>>, <<>>)))

GoalArgs == GoalIds(goals) \cup {MissingId}

StepArgs(goalId) ==
  LET found == findGoal(goals, goalId) IN
  IF found = <<>> THEN {MissingId} ELSE IdSet(found[1].steps) \cup {MissingId}

ParentArgsOf(goalId) == StepArgs(goalId) \cup {NoId}

CtxAddGoal(title, description) ==
  LET maxOrder == IF Len(goals) > 0
                  THEN MaxOf({goals[i].order : i \in 1..Len(goals)})
                  ELSE -1
      newGoal == [id |-> nextId, title |-> title, description |-> description,
                  createdAt |-> now, updatedAt |-> now, steps |-> <<>>,
                  order |-> maxOrder + 1]
  IN /\ fcalls < MaxCalls
     /\ nextId <= MaxIds
     /\ nextId' = nextId + 1
     /\ Await(NewCall("addGoal", nextId, NoId,
                      <<Request("add", nextId, <<newGoal>>)>>,
                      Updater("append", nextId, <<newGoal>>, <<>>)))
     /\ UNCHANGED <<now, evars>>

CtxUpdateGoalDetails(id, title, description) ==
  LET goalToUpdate == findGoal(goals, id) IN
  /\ fcalls < MaxCalls
  /\ IF goalToUpdate = <<>>
     THEN Throw("updateGoalDetails", id, NoId, "Goal not found")
     ELSE PutGoal("updateGoalDetails", id, NoId,
                  [goalToUpdate[1] EXCEPT !.title = title,
                                          !.description = description,
                                          !.updatedAt = now])
  /\ UNCHANGED <<now, nextId, evars>>

CtxDeleteGoal(id) ==
  /\ fcalls < MaxCalls
  /\ Await(NewCall("deleteGoal", id, NoId,
                   <<Request("delete", id, <<>>)>>,
                   Updater("remove", id, <<>>, <<>>)))
  /\ UNCHANGED <<now, nextId, evars>>

CtxAddStep(goalId, title, description, parentStepId) ==
  LET goalToUpdate == findGoal(goals, goalId) IN
  /\ fcalls < MaxCalls
  /\ IF goalToUpdate = <<>>
     THEN /\ Throw("addStep", goalId, NoId, "Goal not found")
          /\ UNCHANGED nextId
     ELSE /\ nextId <= MaxIds
          /\ nextId' = nextId + 1
          /\ PutGoal("addStep", goalId, nextId,
                     ctxAddStep(goalToUpdate[1], title, description,
                                parentStepId, nextId, now))
  /\ UNCHANGED <<now, evars>>

CtxUpdateStep(goalId, stepId, title, description) ==
  LET goalToUpdate == findGoal(goals, goalId) IN
  /\ fcalls < MaxCalls
  /\ IF goalToUpdate = <<>>
     THEN Throw("updateStep", goalId, stepId, "Goal not found")
     ELSE LET existingStep == findStep(goalToUpdate[1], stepId) IN
          IF existingStep = <<>>
          THEN Throw("updateStep", goalId, stepId, "Step not found")
          ELSE PutGoal("updateStep", goalId, stepId,
                       updateStep(goalToUpdate[1],
                                  [existingStep[1] EXCEPT
                                     !.title = title,
                                     !.description = description],
                                  now))
  /\ UNCHANGED <<now, nextId, evars>>

CtxDeleteStep(goalId, stepId) ==
  LET goalToUpdate == findGoal(goals, goalId) IN
  /\ fcalls < MaxCalls
  /\ IF goalToUpdate = <<>>
     THEN Throw("deleteStep", goalId, stepId, "Goal not found")
     ELSE PutGoal("deleteStep", goalId, stepId,
                  deleteStep(goalToUpdate[1], stepId, now))
  /\ UNCHANGED <<now, nextId, evars>>

CtxToggleStepCompletion(goalId, stepId) ==
  LET goalToUpdate == findGoal(goals, goalId) IN
  /\ fcalls < MaxCalls
  /\ IF goalToUpdate = <<>>
     THEN Throw("toggleStepCompletion", goalId, stepId, "Goal not found")
     ELSE PutGoal("toggleStepCompletion", goalId, stepId,
                  toggleStepCompletion(goalToUpdate[1], stepId, now))
  /\ UNCHANGED <<now, nextId, evars>>

\* the indices come from a drag of one list position onto another
CtxReorderGoals(sourceIndex, destinationIndex) ==
  LET updatedGoals == reorderGoals(goals, sourceIndex, destinationIndex) IN
  /\ fcalls < MaxCalls
  /\ sourceIndex < Len(goals)
  /\ destinationIndex < Len(goals)
  /\ Await([NewCall("reorderGoals", NoId, NoId,
                    [i \in 1..Len(updatedGoals) |->
                       Request("put", updatedGoals[i].id, <<updatedGoals[i]>>)],
                    Updater("set", NoId, <<>>, updatedGoals))
              EXCEPT !.sourceIndex = sourceIndex,
                     !.destinationIndex = destinationIndex])
  /\ UNCHANGED <<now, nextId, evars>>

CtxReorderSteps(goalId, stepId, newIndex, parentId) ==
  LET goalToUpdate == findGoal(goals, goalId) IN
  /\ fcalls < MaxCalls
  /\ IF goalToUpdate = <<>>
     THEN Throw("reorderSteps", goalId, stepId, "Goal not found")
     ELSE PutGoal("reorderSteps", goalId, stepId,
                  reorderStep(goalToUpdate[1], stepId, newIndex, parentId, now))
  /\ UNCHANGED <<now, nextId, evars>>

CtxMoveStepToParent(goalId, stepId, newParentId) ==
  LET goalToUpdate == findGoal(goals, goalId) IN
  /\ fcalls < MaxCalls
  /\ IF goalToUpdate = <<>>
     THEN Throw("moveStepToParent", goalId, stepId, "Goal not found")
     ELSE PutGoal("moveStepToParent", goalId, stepId,
                  moveStepToParent(goalToUpdate[1], stepId, newParentId, now))
  /\ UNCHANGED <<now, nextId, evars>>

CtxDuplicateStep(goalId, stepId) ==
  LET goalToUpdate == findGoal(goals, goalId)
      found == IF goalToUpdate = <<>> THEN <<>>
               ELSE findStep(goalToUpdate[1], stepId)
      used == IF found = <<>> THEN 0 ELSE SubtreeSize(found[1])
  IN /\ fcalls < MaxCalls
     /\ IF goalToUpdate = <<>>
        THEN /\ Throw("duplicateStep", goalId, stepId, "Goal not found")
             /\ UNCHANGED nextId
        ELSE /\ nextId + used <= MaxIds + 1
             /\ nextId' = nextId + used
             /\ PutGoal("duplicateStep", goalId, stepId,
                        duplicateStep(goalToUpdate[1], stepId, nextId, now))
     /\ UNCHANGED <<now, evars>>

\* calls without the i-th, which completed with the given outcome; the calls
\* still waiting have met it
Drop(cs, i, outcome) ==
  LET c == cs[i]
      seen == [op |-> c.op, goalId |-> c.goalId, outcome |-> outcome,
               result |-> c.commit.goal, met |-> c.met]
  IN [j \in 1..(Len(cs) - 1) |->
        [(IF j < i THEN cs[j] ELSE cs[j + 1]) EXCEPT !.met = Append(@, seen)]]

\* request.onsuccess of the request call i waits for: the write is in the
\* store, and the call goes on to its next await or to setGoals and returns
StoreOk(i) ==
  LET c == calls[i]
      w == Head(c.pending)
  IN /\ w.kind = "add" => w.id \notin storeKeys(store)
     /\ store' = applyRequest(store, w)
     /\ goals' = afterAwait(c, goals, TRUE)
     /\ IF Len(c.pending) = 1
        THEN /\ calls' = Drop(calls, i, "resolved")
             /\ done' = Completed(c, "resolved", "none", goals', c.issued + 1)
        ELSE /\ calls' = [calls EXCEPT ![i].pending = Tail(@),
                                       ![i].issued = @ + 1]
             /\ UNCHANGED done
     /\ UNCHANGED <<error, fcalls, now, nextId, evars>>

\* request.onerror of the request call i waits for: nothing is written, the
\* catch block sets the error state and rethrows
StoreFail(i) ==
  LET c == calls[i] IN
  /\ goals' = afterAwait(c, goals, FALSE)
  /\ error' = Message(c.op)
  /\ calls' = Drop(calls, i, "rejected")
  /\ done' = Completed(c, "rejected", "store", goals', c.issued + 1)
  /\ UNCHANGED <<store, fcalls, now, nextId, evars>>

\* no call is in flight
Idle == calls = <<>>

\* GoalContext calls made one after the other
NextFacade ==
  \/ Tick
  \/ \E title \in GoalTitles, description \in Descriptions :
       Idle /\ CtxAddGoal(title, description)
  \/ \E id \in GoalArgs, title \in NewGoalTitles, description \in NewDescriptions :
       Idle /\ CtxUpdateGoalDetails(id, title, description)
  \/ \E id \in GoalArgs : Idle /\ CtxDeleteGoal(id)
  \/ \E id \in GoalArgs, title \in Titles, description \in Descriptions :
       \E p \in ParentArgsOf(id) : Idle /\ CtxAddStep(id, title, description, p)
  \/ \E id \in GoalArgs, title \in NewTitles, description \in NewDescriptions :
       \E stepId \in StepArgs(id) :
         Idle /\ CtxUpdateStep(id, stepId, title, description)
  \/ \E id \in GoalArgs : \E stepId \in StepArgs(id) :
       Idle /\ CtxDeleteStep(id, stepId)
  \/ \E id \in GoalArgs : \E stepId \in StepArgs(id) :
       Idle /\ CtxToggleStepCompletion(id, stepId)
  \/ \E sourceIndex \in 0..MaxIndex, destinationIndex \in 0..MaxIndex :
       Idle /\ CtxReorderGoals(sourceIndex, destinationIndex)
  \/ \E id \in GoalArgs, newIndex \in 0..MaxIndex :
       \E stepId \in StepArgs(id), parentId \in ParentArgsOf(id) :
         Idle /\ CtxReorderSteps(id, stepId, newIndex, parentId)
  \/ \E id \in GoalArgs : \E stepId \in StepArgs(id), p \in ParentArgsOf(id) :
       Idle /\ CtxMoveStepToParent(id, stepId, p)
  \/ \E id \in GoalArgs : \E stepId \in StepArgs(id) :
       Idle /\ CtxDuplicateStep(id, stepId)
  \/ \E i \in 1..Len(calls) : StoreOk(i)
  \/ \E i \in 1..Len(calls) : StoreFail(i)

SpecFacade == Init /\ [][NextFacade]_vars

\* ---- GoalContext calls that overlap ----
\* the records of a store that holds two goals, the first with one step
LoadedGoals ==
  LET g1 == [id |-> 1, title |-> <<"goal">>, description |-> NoDesc,
             createdAt |-> 0, updatedAt |-> 0, steps |-> <<>>, order |-> 0]
      g2 == [g1 EXCEPT !.id = 2, !.order = 1]
  IN <<ctxAddStep(g1, <<"t">>, NoDesc, NoId, 3, 0), g2>>

\* GoalProvider after loadGoals on that store, at a later time
InitLoaded ==
  /\ goal = [id |-> "g1", title |-> <<"goal">>, description |-> NoDesc,
             createdAt |-> 0, updatedAt |-> 0, steps |-> <<>>, order |-> 0]
  /\ now = 1
  /\ nextId = 4
  /\ ops = 0
  /\ prev = goal
  /\ last = NoOp
  /\ goals = LoadedGoals
  /\ store = {LoadedGoals[i] : i \in 1..Len(LoadedGoals)}
  /\ calls = <<>>
  /\ error = NoError
  /\ done = NoDone
  /\ fcalls = 0

\* a call on a goal of the collection may start while at most one other call
\* waits for the store; the clock stands still meanwhile
MayStart == Len(calls) <= 1 /\ fcalls < MaxOverlap

NextOverlap ==
  \/ \E title \in GoalTitles, description \in Descriptions :
       MayStart /\ CtxAddGoal(title, description)
  \/ \E id \in GoalIds(goals), title \in NewGoalTitles, description \in NewDescriptions :
       MayStart /\ CtxUpdateGoalDetails(id, title, description)
  \/ \E id \in GoalIds(goals) : MayStart /\ CtxDeleteGoal(id)
  \/ \E id \in GoalIds(goals), title \in Titles, description \in Descriptions :
       \E p \in ParentArgsOf(id) : MayStart /\ CtxAddStep(id, title, description, p)
  \/ \E id \in GoalIds(goals), title \in NewTitles, description \in NewDescriptions :
       \E stepId \in StepArgs(id) :
         MayStart /\ CtxUpdateStep(id, stepId, title, description)
  \/ \E id \in GoalIds(goals) : \E stepId \in StepArgs(id) :
       MayStart /\ CtxDeleteStep(id, stepId)
  \/ \E id \in GoalIds(goals) : \E stepId \in StepArgs(id) :
       MayStart /\ CtxToggleStepCompletion(id, stepId)
  \/ \E sourceIndex \in 0..MaxIndex, destinationIndex \in 0..MaxIndex :
       MayStart /\ CtxReorderGoals(sourceIndex, destinationIndex)
  \/ \E id \in GoalIds(goals), newIndex \in 0..MaxIndex :
       \E stepId \in StepArgs(id), parentId \in ParentArgsOf(id) :
         MayStart /\ CtxReorderSteps(id, stepId, newIndex, parentId)
  \/ \E id \in GoalIds(goals) : \E stepId \in StepArgs(id), p \in ParentArgsOf(id) :
       MayStart /\ CtxMoveStepToParent(id, stepId, p)
  \/ \E id \in GoalIds(goals) : \E stepId \in StepArgs(id) :
       MayStart /\ CtxDuplicateStep(id, stepId)
  \/ \E i \in 1..Len(calls) : StoreOk(i)
  \/ \E i \in 1..Len(calls) : StoreFail(i)

SpecOverlap == InitLoaded /\ [][NextOverlap]_vars

\* ---- vocabulary of the properties ----
Found(g, id) == id \in IdSet(g.steps)

\* identifiers of the descendants of the step id, at any depth
DescendantIds(steps, id) == IdSet(StepOf(steps, id).children)

\* a sequence without one identifier
RECURSIVE Without(_, _)
Without(ids, id) ==
  IF ids = <<>> THEN <<>>
  ELSE IF Head(ids) = id THEN Without(Tail(ids), id)
  ELSE <<Head(ids)>> \o Without(Tail(ids), id)

\* how many times an identifier occurs in a forest
Occurrences(steps, id) ==
  LET ids == IdSeq(steps) IN Cardinality({i \in 1..Len(ids) : ids[i] = id})

\* order values of a sibling list are exactly 0..N-1
Dense(list) == {list[i].order : i \in 1..Len(list)} = 0..(Len(list) - 1)

OrderDense(g) == \A list \in SiblingLists(g.steps) : Dense(list)

\* parentId names the step that structurally contains the step
ParentConsistent(g) ==
  \A s \in AllSteps(g.steps) : s.parentId = ContainerOf(g.steps, s.id)

\* two forests agree on titles, descriptions, completed flags and child counts
RECURSIVE Mirrors(_, _)
Mirrors(copies, originals) ==
  /\ Len(copies) = Len(originals)
  /\ \A i \in 1..Len(copies) :
       /\ copies[i].title = originals[i].title
       /\ copies[i].description = originals[i].description
       /\ copies[i].completed = originals[i].completed
       /\ Mirrors(copies[i].children, originals[i].children)

\* the latest call was op on a step the Goal held
Did(op) == last.op = op /\ Found(prev, last.stepId)

\* the latest call named a step the Goal did not hold
MissedTarget ==
  \/ /\ last.op = "Insert"
     /\ last.parentId # NoId
     /\ ~Found(prev, last.parentId)
  \/ /\ last.op \in {"Update", "Delete", "Toggle", "Duplicate", "Reorder", "Move"}
     /\ ~Found(prev, last.stepId)

\* the latest call was a duplication whose copy was placed in the Goal
Duplicated == Did("Duplicate") /\ Found(goal, last.newId)

\* the latest call was a legal re-parent of a step the Goal held
LegalMove ==
  /\ Did("Move")
  /\ \/ last.parentId = NoId
     \/ /\ Found(prev, last.parentId)
        /\ last.parentId # last.stepId
        /\ last.parentId \notin DescendantIds(prev.steps, last.stepId)

\* ---- C1 ----
\* C1: from a Goal whose sibling lists all have orders exactly 0..N-1, a single
\* Insert, ReorderSiblings, DuplicateSubtree or MoveToParent yields a Goal whose
\* sibling lists all have orders exactly 0..N-1.
C1_OrderDensity ==
  (last.op \in {"Insert", "Reorder", "Duplicate", "Move"} /\ OrderDense(prev))
    => OrderDense(goal)

\* ---- C2 ----
\* C2: MoveToParent of a step onto itself or onto one of its descendants returns
\* the same step forest.
C2_IllegalMoveRejected ==
  (/\ Did("Move")
   /\ last.parentId \in {last.stepId} \cup DescendantIds(prev.steps, last.stepId))
    => goal.steps = prev.steps

\* ---- C3 ----
\* C3: ToggleCompletion of a found step X negates X.completed, gives every
\* descendant of X that new value, leaves completed of every other step as it
\* was, and changes no other field of any step.
C3_CascadeCompletion ==
  Did("Toggle") =>
    LET old == StepOf(prev.steps, last.stepId)
        affected == {last.stepId} \cup DescendantIds(prev.steps, last.stepId)
    IN /\ IdSeq(goal.steps) = IdSeq(prev.steps)
       /\ \A id \in IdSet(prev.steps) :
            LET p == StepOf(prev.steps, id)
                q == StepOf(goal.steps, id)
            IN /\ q.completed = IF id \in affected THEN ~old.completed
                                ELSE p.completed
               /\ [Fields(q) EXCEPT !.completed = FALSE]
                    = [Fields(p) EXCEPT !.completed = FALSE]

\* a toggled step below another step, with a child and a grandchild or an
\* ancestor whose flag now differs from its own
C3_Witness ==
  /\ Did("Toggle")
  /\ LET old == StepOf(prev.steps, last.stepId) IN
       /\ old.children # <<>>
       /\ \/ \E i \in 1..Len(old.children) : old.children[i].children # <<>>
          \/ /\ ContainerOf(prev.steps, last.stepId) # NoId
             /\ StepOf(goal.steps, ContainerOf(prev.steps, last.stepId)).completed
                  # StepOf(goal.steps, last.stepId).completed

\* ---- C4 ----
\* C4: the copy made by DuplicateSubtree has the title of X followed by
\* " (Copy)", and its descendants have exactly the titles, descriptions,
\* completed flags and child counts of the descendants of X.
C4_DuplicateShape ==
  Duplicated =>
    LET x == StepOf(prev.steps, last.stepId)
        copy == StepOf(goal.steps, last.newId)
    IN /\ copy.title = Append(x.title, CopySuffix)
       /\ Mirrors(copy.children, x.children)

\* ---- C5 ----
\* C5: no two steps of the Goal share an identifier, and every node of a
\* duplicated subtree has an identifier the Goal did not hold before.
C5_IdUniqueness ==
  /\ \A id \in IdSet(goal.steps) : Occurrences(goal.steps, id) = 1
  /\ Duplicated =>
       LET copy == StepOf(goal.steps, last.newId) IN
       IdSet(<<copy>>) \cap IdSet(prev.steps) = {}

\* a step with descendants has been duplicated
C5_Witness ==
  /\ Duplicated
  /\ StepOf(goal.steps, last.newId).children # <<>>

\* ---- C6 ----
\* C6: an engine mutation whose target identifier names no step returns a Goal
\* equal to its input, updatedAt included.
C6_NoOpDeepEqual == MissedTarget => goal = prev

\* ---- C7 ----
\* C7: every step's parentId is the identifier of the step whose children hold
\* it, and is absent exactly for the steps of the root list.
C7_ParentConsistency == ParentConsistent(goal)

\* ---- C8 ----
\* C8: DuplicateSubtree of a found step X appends the copy to the sibling list
\* that holds X, with order one more than the greatest order of that list, and
\* leaves the members of every other sibling list as they were.
C8_DuplicatePlacement ==
  Did("Duplicate") =>
    LET c == ContainerOf(prev.steps, last.stepId)
        before == ListOf(prev.steps, c)
        after == ListOf(goal.steps, c)
    IN /\ ChildIds(after) = Append(ChildIds(before), last.newId)
       /\ after[Len(after)].order
            = MaxOf({before[i].order : i \in 1..Len(before)}) + 1
       /\ \A d \in (IdSet(prev.steps) \cup {NoId}) \ {c} :
            ChildIds(ListOf(goal.steps, d)) = ChildIds(ListOf(prev.steps, d))

\* ---- C9 ----
\* C9: MoveToParent of a found step to a parent identifier that names no step
\* leaves the set of step identifiers of the Goal as it was.
C9_MoveToMissingParent ==
  (/\ Did("Move")
   /\ last.parentId # NoId
   /\ ~Found(prev, last.parentId))
    => IdSet(goal.steps) = IdSet(prev.steps)

\* ---- C10 ----
\* C10: a legal MoveToParent puts the step, once, at the end of the new sibling
\* list with parentId = newParentId and an order above every other order of
\* that list; the step's other fields and its subtree are as before, and every
\* other step keeps its fields and its children, the moved step apart.
C10_Reparent ==
  LegalMove =>
    LET x == last.stepId
        np == last.parentId
        old == StepOf(prev.steps, x)
        new == StepOf(goal.steps, x)
        list == ListOf(goal.steps, np)
        Kids(ids, holder) ==
          IF holder = np THEN Append(Without(ids, x), x) ELSE Without(ids, x)
    IN /\ Occurrences(goal.steps, x) = 1
       /\ Len(list) > 0
       /\ list[Len(list)].id = x
       /\ new.parentId = np
       /\ \A i \in 1..(Len(list) - 1) : list[i].order < new.order
       /\ [new EXCEPT !.parentId = NoId, !.order = 0]
            = [old EXCEPT !.parentId = NoId, !.order = 0]
       /\ ChildIds(goal.steps) = Kids(ChildIds(prev.steps), NoId)
       /\ \A id \in IdSet(prev.steps) \ IdSet(<<old>>) :
            /\ Found(goal, id)
            /\ LET p == Fields(StepOf(prev.steps, id))
                   q == Fields(StepOf(goal.steps, id))
               IN q = [p EXCEPT !.kids = Kids(@, id)]

\* a step with children has been moved out of its sibling list to the end of
\* another list that holds other steps
C10_Witness ==
  /\ LegalMove
  /\ StepOf(prev.steps, last.stepId).children # <<>>
  /\ ContainerOf(prev.steps, last.stepId) # last.parentId
  /\ Len(ListOf(goal.steps, last.parentId)) > 1

\* ---- C11 ----
\* the latest call reordered a step inside the sibling list its parentId names
ReorderHit ==
  /\ last.op = "Reorder"
  /\ last.parentId = NoId \/ Found(prev, last.parentId)
  /\ SomeId(ListOf(prev.steps, last.parentId), last.stepId)

\* C11: ReorderSiblings of a member of the named sibling list of length N keeps
\* the members, puts the step at position newIndex (last when newIndex >= N),
\* keeps the relative order of the others, sets order to the array position,
\* and leaves every other sibling list as it was.
C11_ReorderSiblings ==
  ReorderHit =>
    LET x == last.stepId
        np == last.parentId
        old == ListOf(prev.steps, np)
        new == ListOf(goal.steps, np)
        N == Len(old)
        at == IF last.newIndex >= N THEN N ELSE last.newIndex + 1
    IN /\ Len(new) = N
       /\ new[at].id = x
       /\ Without(ChildIds(new), x) = Without(ChildIds(old), x)
       /\ \A i \in 1..N : new[i].order = i - 1
       /\ IdSet(goal.steps) = IdSet(prev.steps)
       /\ np # NoId => ChildIds(goal.steps) = ChildIds(prev.steps)
       /\ \A id \in IdSet(prev.steps) :
            LET p == Fields(StepOf(prev.steps, id))
                q == Fields(StepOf(goal.steps, id))
            IN q = [p EXCEPT
                      !.order = IF SomeId(old, id) THEN FindIndex(new, id) - 1 ELSE @,
                      !.kids = IF id = np THEN ChildIds(new) ELSE @]

\* a step of a nested list of two or more has changed its position
C11_Witness ==
  /\ ReorderHit
  /\ last.parentId # NoId
  /\ Len(ListOf(prev.steps, last.parentId)) >= 2
  /\ FindIndex(ListOf(prev.steps, last.parentId), last.stepId)
       # FindIndex(ListOf(goal.steps, last.parentId), last.stepId)

\* ---- C12 ----
\* the latest call inserted a step at the root or under a step the Goal held
InsertHit ==
  /\ last.op = "Insert"
  /\ last.parentId = NoId \/ Found(prev, last.parentId)

\* C12: Insert appends the new step to the root list (no parentId) or to the
\* children of the named step; the new step has no children, is not completed
\* and has order = greatest order of the target list + 1, or 0 for an empty
\* list; every step already there keeps its fields and its place.
C12_Insert ==
  InsertHit =>
    LET np == last.parentId
        old == ListOf(prev.steps, np)
        new == ListOf(goal.steps, np)
        added == new[Len(new)]
    IN /\ ChildIds(new) = Append(ChildIds(old), last.newId)
       /\ added.children = <<>>
       /\ added.completed = FALSE
       /\ added.order = IF old = <<>> THEN 0
                        ELSE MaxOf({old[i].order : i \in 1..Len(old)}) + 1
       /\ np # NoId => ChildIds(goal.steps) = ChildIds(prev.steps)
       /\ \A id \in IdSet(prev.steps) :
            LET p == Fields(StepOf(prev.steps, id))
                q == Fields(StepOf(goal.steps, id))
            IN q = [p EXCEPT !.kids = IF id = np THEN Append(@, last.newId) ELSE @]

\* a step has been inserted under a step that already had children
C12_Witness ==
  /\ InsertHit
  /\ last.parentId # NoId
  /\ Len(ListOf(goal.steps, last.parentId)) > 1

\* ---- C13 ----
\* C13: Delete of a found step removes exactly that step and its descendants;
\* every other step stays at its place with all its fields, order included.
C13_Delete ==
  Did("Delete") =>
    LET x == last.stepId
        gone == IdSet(<<StepOf(prev.steps, x)>>)
    IN /\ IdSet(goal.steps) = IdSet(prev.steps) \ gone
       /\ ChildIds(goal.steps) = Without(ChildIds(prev.steps), x)
       /\ \A id \in IdSet(prev.steps) \ gone :
            LET p == Fields(StepOf(prev.steps, id))
                q == Fields(StepOf(goal.steps, id))
            IN q = [p EXCEPT !.kids = Without(@, x)]

\* a nested step with children has been deleted
C13_Witness ==
  /\ Did("Delete")
  /\ ContainerOf(prev.steps, last.stepId) # NoId
  /\ StepOf(prev.steps, last.stepId).children # <<>>

\* ---- C14 ----
\* no two steps of one sibling list have the same order
OrdersDistinct(g) ==
  \A list \in SiblingLists(g.steps) :
    \A i, j \in 1..Len(list) : i # j => list[i].order # list[j].order

\* C14: after any sequence of engine operations, no two steps of the same
\* sibling list have equal order values.
C14_SiblingOrderTotal == OrdersDistinct(goal)

\* ---- C15 ----
\* C15: Update of a found step sets its title and description and changes
\* nothing else: not its children, order, completed or parentId, and no field
\* of any other step.
C15_Update ==
  Did("Update") =>
    /\ IdSeq(goal.steps) = IdSeq(prev.steps)
    /\ \A id \in IdSet(prev.steps) :
         LET p == Fields(StepOf(prev.steps, id))
             q == Fields(StepOf(goal.steps, id))
         IN q = IF id = last.stepId
                THEN [p EXCEPT !.title = last.title,
                               !.description = last.description]
                ELSE p

\* a nested step with children has been given a new title
C15_Witness ==
  /\ Did("Update")
  /\ ContainerOf(prev.steps, last.stepId) # NoId
  /\ StepOf(prev.steps, last.stepId).children # <<>>
  /\ StepOf(prev.steps, last.stepId).title # last.title

\* ---- vocabulary of the GoalContext properties ----
GoalIdOps == {"addStep", "updateStep", "deleteStep", "toggleStepCompletion",
              "reorderSteps", "moveStepToParent", "duplicateStep",
              "updateGoalDetails", "deleteGoal"}

StepOps == {"updateStep", "deleteStep", "toggleStepCompletion", "reorderSteps",
            "moveStepToParent", "duplicateStep"}

\* the call completed last named a goal the collection did not hold
MissingGoalCall ==
  /\ done.op \in GoalIdOps
  /\ done.goalId \notin GoalIds(done.before)

\* the call completed last named a goal of the collection and a step that
\* goal did not hold, and its store request did not fail
MissingStepCall ==
  /\ done.op \in StepOps
  /\ done.goalId \in GoalIds(done.before)
  /\ done.stepId \notin IdSet(findGoal(done.before, done.goalId)[1].steps)
  /\ done.cause # "store"

\* ---- C16 ----
\* C16: a GoalContext operation that takes a goal identifier, called with an
\* identifier the in-memory collection does not hold, rejects, issues no
\* request to the store and leaves the collection unchanged.
C16_MissingGoalRejected ==
  MissingGoalCall =>
    /\ done.outcome = "rejected"
    /\ done.issued = 0
    /\ done.after = done.before

\* ---- C17 ----
\* C17: when the store request a GoalContext operation awaits fails, the
\* in-memory collection after the operation equals the collection before it
\* and the operation rejects.
C17_NoPartialApply ==
  done.cause = "store" =>
    /\ done.outcome = "rejected"
    /\ done.after = done.before
    /\ Idle => goals = done.before

\* reorderGoals of two different positions failed at its second request
C17_Witness ==
  /\ done.cause = "store"
  /\ done.op = "reorderGoals"
  /\ done.sourceIndex # done.destinationIndex
  /\ done.issued = 2

\* ---- C18 ----
\* C18: a GoalContext step operation called on a goal of the collection with
\* a stepId that names no step of that goal completes without an error and
\* leaves the goal unchanged.
C18_MissingStepTolerated ==
  MissingStepCall =>
    /\ done.outcome = "resolved"
    /\ findGoal(done.after, done.goalId) = findGoal(done.before, done.goalId)

\* ---- C19 ----
\* C19: when no call is in flight, the order values of the goals of the
\* collection are exactly 0..N-1, and a goal just added has no steps and the
\* next order.
C19_GoalOrderDensity ==
  Idle =>
    /\ Dense(goals)
    /\ done.op = "addGoal" /\ done.outcome = "resolved" =>
         LET added == done.after[Len(done.after)] IN
         /\ added.steps = <<>>
         /\ added.order = Len(done.after) - 1

\* ---- C20 ----
\* the call completed last was a reorderGoals that wrote every goal
ReorderedGoals == done.op = "reorderGoals" /\ done.outcome = "resolved"

\* C20: reorderGoals of a list of N goals with both indices in 0..N-1 gives a
\* permutation of the list with the goal of sourceIndex at destinationIndex,
\* the other goals in their previous relative order, every order equal to
\* the position, and no other field of any goal changed.
C20_ReorderGoals ==
  ReorderedGoals =>
    LET old == done.before
        new == done.after
        moved == old[done.sourceIndex + 1].id
    IN /\ Len(new) = Len(old)
       /\ new[done.destinationIndex + 1].id = moved
       /\ Without(ChildIds(new), moved) = Without(ChildIds(old), moved)
       /\ \A i \in 1..Len(new) :
            /\ new[i].order = i - 1
            /\ [new[i] EXCEPT !.order = 0]
                 = [findGoal(old, new[i].id)[1] EXCEPT !.order = 0]

\* a goal of a list of three has been moved to another position
C20_Witness ==
  /\ ReorderedGoals
  /\ Len(done.before) >= 3
  /\ done.sourceIndex # done.destinationIndex

\* ---- C21 ----
\* the latest engine call changed the Goal as it was asked to: its target was
\* found, and an Insert or MoveToParent named no parent or a legal one
Succeeded ==
  \/ InsertHit
  \/ \E op \in {"Update", "Delete", "Toggle", "Duplicate", "Reorder"} : Did(op)
  \/ LegalMove

\* C21: an engine mutation that succeeds returns a Goal whose updatedAt is the
\* time of the call and whose id and createdAt are unchanged; the updatedAt of
\* the Goal never decreases from one call to the next.
C21_UpdatedAtRefresh ==
  /\ Succeeded =>
       /\ goal.updatedAt = last.at
       /\ goal.id = prev.id
       /\ goal.createdAt = prev.createdAt
  /\ goal.updatedAt >= prev.updatedAt

\* a step has been moved under another step after the clock advanced
C21_Witness ==
  /\ LegalMove
  /\ last.parentId # NoId
  /\ prev.updatedAt < last.at

\* ---- C22 ----
\* C22: isDescendant(ancestorId, candidateId) is true exactly when ancestorId
\* names a step and candidateId names a step reached from it by following
\* children one or more times; it is false when ancestorId names no step.
C22_DescendantTest ==
  \A a, c \in IdSet(goal.steps) \cup {MissingId} :
    isDescendant(goal, a, c)
      <=> (Found(goal, a) /\ c \in DescendantIds(goal.steps, a))

\* MoveToParent of a step under the child of its child was refused
C22_Witness ==
  /\ Did("Move")
  /\ Found(prev, last.parentId)
  /\ ContainerOf(prev.steps, last.parentId) # last.stepId
  /\ last.parentId \in DescendantIds(prev.steps, last.stepId)
  /\ goal = prev

\* ---- C27 ----
\* the order fields of a sibling array increase strictly along the array
Ascending(list) == \A i \in 1..(Len(list) - 1) : list[i].order < list[i + 1].order

\* C27: in every Goal the engine operations reach, every sibling array is in
\* strictly increasing order of its order field.
C27_PositionAgreesWithOrder ==
  \A list \in SiblingLists(goal.steps) : Ascending(list)

\* ---- C23 ----
\* C23: whenever no GoalContext call is in flight, the object store holds
\* exactly the goals of the in-memory collection, with the same field values.
C23_StoreAgreesWithMemory ==
  Idle => store = {goals[i] : i \in 1..Len(goals)}

\* ---- C28 ----
\* C28: when no call is in flight and the call completed last succeeded, the
\* error state is null.
C28_ErrorReflectsLatest ==
  (Idle /\ done.outcome = "resolved") => error = NoError

\* ---- vocabulary of the properties of overlapping calls ----
StepCallOps == StepOps \cup {"addStep"}

\* the calls that completed while the call completed last was waiting
MetCalls == {done.met[i] : i \in 1..Len(done.met)}

\* ---- C24 ----
\* C24: once deleteGoal(id) has resolved, the store holds no record with that
\* id, also after a step operation on that goal that was waiting for the
\* store during the deletion has written its result.
C24_DeletedStaysDeleted ==
  /\ (Idle /\ done.op = "deleteGoal" /\ done.outcome = "resolved")
       => done.goalId \notin storeKeys(store)
  /\ (done.op \in StepCallOps /\ done.outcome = "resolved")
       => \A m \in MetCalls :
            (m.op = "deleteGoal" /\ m.outcome = "resolved"
               /\ m.goalId = done.goalId)
              => m.goalId \notin storeKeys(store)

\* ---- C25 ----
\* C25: when two addGoal calls that overlapped have both resolved, their new
\* goals have different orders and both are in memory and in the store.
C25_OverlappingAddGoal ==
  (Idle /\ done.op = "addGoal" /\ done.outcome = "resolved") =>
    \A m \in MetCalls :
      (m.op = "addGoal" /\ m.outcome = "resolved") =>
        /\ m.result[1].order # done.result[1].order
        /\ findGoal(goals, m.goalId) = m.result
        /\ findGoal(goals, done.goalId) = done.result
        /\ {m.result[1], done.result[1]} \subseteq store

\* ---- C26 ----
\* two step operations on two different goals overlapped, with no third call
\* completing meanwhile, and both have resolved
TwoGoalsOverlap ==
  /\ Idle
  /\ done.op \in StepCallOps
  /\ done.outcome = "resolved"
  /\ Len(done.met) = 1
  /\ done.met[1].met = <<>>
  /\ done.met[1].op \in StepCallOps
  /\ done.met[1].outcome = "resolved"
  /\ done.met[1].goalId # done.goalId

\* C26: when two step operations on two different goals overlapped and both
\* have completed, the in-memory collection and the store each hold the
\* result of both.
C26_DifferentGoalsIndependent ==
  TwoGoalsOverlap =>
    LET m == done.met[1] IN
    /\ findGoal(goals, done.goalId) = done.result
    /\ findGoal(goals, m.goalId) = m.result
    /\ {m.result[1], done.result[1]} \subseteq store

\* both of the overlapping operations changed their goal
C26_Witness ==
  /\ TwoGoalsOverlap
  /\ done.result # findGoal(done.before, done.goalId)
  /\ done.met[1].result # findGoal(done.before, done.met[1].goalId)

====
